---- MODULE Spec2Model ----
(***************************************************************************)
(* Model of the zipcodes package (src/zipcodes.go): the dataset loader     *)
(* LoadDataset / New, and the queries Lookup, CalculateDistance and        *)
(* FindZipcodesWithinRadius built on the loaded map.                       *)
(*                                                                         *)
(* Strings are sequences of one-character strings.  A dataset file is the  *)
(* sequence of lines bufio.Scanner yields.  Coordinates are whole degrees  *)
(* that are multiples of 90, where sin and cos take the values 0, 1/2, 1   *)
(* and the haversine formula can be evaluated with integers; distances,    *)
(* and the maxRadius argument, are held in hundredths of the unit (the     *)
(* code rounds every distance to two decimals).                            *)
(***************************************************************************)
EXTENDS Integers, Sequences, FiniteSets, TLC

VARIABLES
    fileExists,  \* os.Open succeeds on datasetPath
    file,        \* the lines of the file, in file order
    pc,          \* position of the caller in New / LoadDataset
    pos,         \* number of lines the scanner has delivered
    fileOpen,    \* the *os.File is open
    closeCount,  \* number of file.Close() calls made
    zipcodeMap,  \* LoadDataset's local zipcodeMap.DatasetList
    result,      \* the pair LoadDataset returns: [index, err]
    zc,          \* the *Zipcodes New returns (Nil when New returns nil)
    call         \* the last query made on zc, with what it returned

vars == <<fileExists, file, pc, pos, fileOpen, closeCount, zipcodeMap,
          result, zc, call>>

----------------------------------------------------------------------------
(* Bounds and program constants *)

MaxLines == 3

earthRadiusKm == 6371
earthRadiusMi == 3958

\* math.Pi, as the rational PiNum / PiDen (exact enough for two decimals)
PiNum == 355
PiDen == 113

TAB == "\t"
NumFields == 12

\* a pointer is the sequence of the one value it points to; nil is empty
Nil == <<>>
Ptr(v) == <<v>>
Deref(p) == p[1]

----------------------------------------------------------------------------
(* Values *)

ZipCodeLocationOf(zip, place, admin, lat, lon, state) ==
    [ZipCode |-> zip, PlaceName |-> place, AdminName |-> admin,
     Lat |-> lat, Lon |-> lon, StateCode |-> state]

\* ZipCodeLocation{} : the zero value of the struct
ZeroLocation == ZipCodeLocationOf(<<>>, <<>>, <<>>, 0, 0, <<>>)

\* a map with no entries (also what reading a nil map sees)
EmptyMap == [k \in {} |-> ZeroLocation]

\* Zipcodes{} : DatasetList is the nil map
ZeroZipcodes == [DatasetList |-> EmptyMap]

NoErr == [kind |-> "nil", raw |-> <<>>]
ErrFields == [kind |-> "fields", raw |-> <<>>]
ErrLat(s) == [kind |-> "lat", raw |-> s]
ErrLon(s) == [kind |-> "lon", raw |-> s]
ErrOpen == [kind |-> "open", raw |-> <<>>]
ErrScanner == [kind |-> "scanner", raw |-> <<>>]
ErrNotFound(zipCode) == [kind |-> "notfound", raw |-> zipCode]

----------------------------------------------------------------------------
(* Library functions the loader uses *)

\* strings.Split(s, "\t"): the pieces of s between tabs; "" gives one piece
RECURSIVE SplitFrom(_, _, _, _)
SplitFrom(s, i, cur, acc) ==
    IF i > Len(s) THEN Append(acc, cur)
    ELSE IF s[i] = TAB THEN SplitFrom(s, i + 1, <<>>, Append(acc, cur))
    ELSE SplitFrom(s, i + 1, Append(cur, s[i]), acc)

Split(s) == SplitFrom(s, 1, <<>>, <<>>)

\* splittedLine[i], with Go's indices from 0
Field(splittedLine, i) == splittedLine[i + 1]

Digits == {"0", "1", "2", "3", "4", "5", "6", "7", "8", "9"}

DigitVal(c) ==
    CASE c = "0" -> 0 [] c = "1" -> 1 [] c = "2" -> 2 [] c = "3" -> 3
      [] c = "4" -> 4 [] c = "5" -> 5 [] c = "6" -> 6 [] c = "7" -> 7
      [] c = "8" -> 8 [] c = "9" -> 9

RECURSIVE DecValue(_)
DecValue(ds) ==
    IF Len(ds) = 0 THEN 0
    ELSE 10 * DecValue(SubSeq(ds, 1, Len(ds) - 1)) + DigitVal(ds[Len(ds)])

\* strconv.ParseFloat(s, 64) on texts over digits, sign and letters that
\* start no float syntax: an optional sign and then one or more digits
ParseFloat(s) ==
    LET signed == Len(s) > 0 /\ s[1] \in {"+", "-"}
        ds == IF signed THEN Tail(s) ELSE s
    IN  IF Len(ds) = 0 \/ (\E i \in 1..Len(ds) : ds[i] \notin Digits)
        THEN [ok |-> FALSE, val |-> 0]
        ELSE [ok |-> TRUE,
              val |-> IF s[1] = "-" THEN 0 - DecValue(ds) ELSE DecValue(ds)]

----------------------------------------------------------------------------
(* Distance: angles in radians are counted in quarter turns (pi/2) *)

\* math.Pow(math.Sin(t/2), 2), doubled: 0, 1/2, 1, 1/2 at 0, 90, 180, 270
hsin(t) == CASE t % 4 = 0 -> 0 [] t % 4 = 1 -> 1 [] t % 4 = 2 -> 2 [] t % 4 = 3 -> 1

\* math.Cos(t)
Cos(t) == CASE t % 4 = 0 -> 1 [] t % 4 = 1 -> 0 [] t % 4 = 2 -> 0 - 1 [] t % 4 = 3 -> 0

\* d * math.Pi / 180, in quarter turns
degreesToRadians(d) == d \div 90

\* 2 * math.Atan2(math.Sqrt(a), math.Sqrt(1-a)), in quarter turns, of the
\* doubled a: a = 0 gives 0, a = 1/2 gives pi/2, a = 1 gives pi
TwoAtan2(a) == CASE a = 0 -> 0 [] a = 1 -> 1 [] a = 2 -> 2

\* math.Round(n / d) for n >= 0, d > 0: halves go away from zero
Round(n, d) == (2 * n + d) \div (2 * d)

\* the haversine distance, in hundredths of the unit of radius
DistanceBetweenPoints(latitude1, longitude1, latitude2, longitude2, radius) ==
    LET lat1 == degreesToRadians(latitude1)
        lon1 == degreesToRadians(longitude1)
        lat2 == degreesToRadians(latitude2)
        lon2 == degreesToRadians(longitude2)
        diffLat == lat2 - lat1
        diffLon == lon2 - lon1
        a == hsin(diffLat) + Cos(lat1) * Cos(lat2) * hsin(diffLon)
        c == TwoAtan2(a)
    IN  Round(c * PiNum * radius * 100, 2 * PiDen)

----------------------------------------------------------------------------
(* Query functions on a Zipcodes value *)

\* zc.DatasetList[zipCode]: the stored value, or the zero value if absent
MapRead(DatasetList, zipCode) ==
    IF zipCode \in DOMAIN DatasetList THEN DatasetList[zipCode]
    ELSE ZeroLocation

\* a map assignment that keeps the entry a key already has
MapInsertKeepFirst(DatasetList, key, value) ==
    [k \in DOMAIN DatasetList \cup {key} |->
        IF k \in DOMAIN DatasetList THEN DatasetList[k] ELSE value]

\* zipcodeMap.DatasetList[key] = value
MapInsert(DatasetList, key, value) ==
    [k \in DOMAIN DatasetList \cup {key} |->
        IF k = key THEN value ELSE DatasetList[k]]

Lookup(z, zipCode) ==
    LET foundedZipcode == MapRead(z.DatasetList, zipCode)
    IN  IF foundedZipcode = ZeroLocation
        THEN [loc |-> ZeroLocation, err |-> ErrNotFound(zipCode)]
        ELSE [loc |-> foundedZipcode, err |-> NoErr]

CalculateDistance(z, zipCodeA, zipCodeB, radius) ==
    LET A == Lookup(z, zipCodeA)
        B == Lookup(z, zipCodeB)
    IN  IF A.err # NoErr THEN [dist |-> 0, err |-> A.err]
        ELSE IF B.err # NoErr THEN [dist |-> 0, err |-> B.err]
        ELSE [dist |-> DistanceBetweenPoints(A.loc.Lat, A.loc.Lon,
                                             B.loc.Lat, B.loc.Lon, radius),
              err |-> NoErr]

\* the loop of FindZipcodesWithinRadius over the map's entries, visited in
\* the order the sequence keys gives (Go leaves the order of range open)
RECURSIVE FindLoop(_, _, _, _, _)
FindLoop(z, keys, location, maxRadius, earthRadius) ==
    IF Len(keys) = 0 THEN <<>>
    ELSE LET elm == z.DatasetList[keys[Len(keys)]]
             before == FindLoop(z, SubSeq(keys, 1, Len(keys) - 1), location,
                                maxRadius, earthRadius)
             distance == DistanceBetweenPoints(location.Lat, location.Lon,
                                               elm.Lat, elm.Lon, earthRadius)
         IN  IF elm.ZipCode # location.ZipCode /\ distance < maxRadius
             THEN Append(before, elm.ZipCode)
             ELSE before

FindZipcodesWithinRadius(z, keys, location, maxRadius, earthRadius) ==
    FindLoop(z, keys, location, maxRadius, earthRadius)

\* GetZipcodesWithinKmRadius and GetZipcodesWithinMlRadius, which differ in
\* the earth radius they pass on
GetZipcodesWithinRadius(z, keys, zipCode, radius, earthRadius) ==
    LET L == Lookup(z, zipCode)
    IN  IF L.err # NoErr THEN [list |-> <<>>, err |-> L.err]
        ELSE [list |-> FindZipcodesWithinRadius(z, keys, L.loc, radius,
                                                earthRadius),
              err |-> NoErr]

\* the orders in which range can visit the keys of a map
Orders(S) ==
    {o \in [1..Cardinality(S) -> S] : \A i, j \in DOMAIN o : o[i] = o[j] => i = j}

----------------------------------------------------------------------------
(* One iteration of the scanner loop of LoadDataset on the line text:     *)
(* either LoadDataset returns (index, err), or the map gets an entry      *)

\* the loop body returning the map built so far along with the error
LoadLinePartial(DatasetList, text) ==
    LET splittedLine == Split(text)
        partial == [DatasetList |-> DatasetList]
    IN  IF Len(splittedLine) # NumFields
        THEN [returns |-> TRUE, index |-> partial, err |-> ErrFields,
              map |-> DatasetList]
        ELSE
        LET lat == ParseFloat(Field(splittedLine, 9))
            lon == ParseFloat(Field(splittedLine, 10))
        IN  IF ~lat.ok
            THEN [returns |-> TRUE, index |-> partial,
                  err |-> ErrLat(Field(splittedLine, 9)), map |-> DatasetList]
            ELSE IF ~lon.ok
            THEN [returns |-> TRUE, index |-> partial,
                  err |-> ErrLon(Field(splittedLine, 10)), map |-> DatasetList]
            ELSE [returns |-> FALSE, index |-> ZeroZipcodes, err |-> NoErr,
                  map |-> MapInsert(DatasetList, Field(splittedLine, 1),
                            ZipCodeLocationOf(Field(splittedLine, 1),
                                              Field(splittedLine, 2),
                                              Field(splittedLine, 3),
                                              lat.val, lon.val,
                                              Field(splittedLine, 4)))]

\* the loop body parsing the longitude before the latitude
LoadLineLonFirst(DatasetList, text) ==
    LET splittedLine == Split(text)
    IN  IF Len(splittedLine) # NumFields
        THEN [returns |-> TRUE, index |-> ZeroZipcodes, err |-> ErrFields,
              map |-> DatasetList]
        ELSE
        LET lat == ParseFloat(Field(splittedLine, 9))
            lon == ParseFloat(Field(splittedLine, 10))
        IN  IF ~lon.ok
            THEN [returns |-> TRUE, index |-> ZeroZipcodes,
                  err |-> ErrLon(Field(splittedLine, 10)), map |-> DatasetList]
            ELSE IF ~lat.ok
            THEN [returns |-> TRUE, index |-> ZeroZipcodes,
                  err |-> ErrLat(Field(splittedLine, 9)), map |-> DatasetList]
            ELSE [returns |-> FALSE, index |-> ZeroZipcodes, err |-> NoErr,
                  map |-> MapInsert(DatasetList, Field(splittedLine, 1),
                            ZipCodeLocationOf(Field(splittedLine, 1),
                                              Field(splittedLine, 2),
                                              Field(splittedLine, 3),
                                              lat.val, lon.val,
                                              Field(splittedLine, 4)))]

LoadLine(DatasetList, text) ==
    LET splittedLine == Split(text)
    IN  IF Len(splittedLine) # NumFields
        THEN [returns |-> TRUE, index |-> ZeroZipcodes, err |-> ErrFields,
              map |-> DatasetList]
        ELSE
        LET lat == ParseFloat(Field(splittedLine, 9))
            lon == ParseFloat(Field(splittedLine, 10))
        IN  IF ~lat.ok
            THEN [returns |-> TRUE, index |-> ZeroZipcodes,
                  err |-> ErrLat(Field(splittedLine, 9)), map |-> DatasetList]
            ELSE IF ~lon.ok
            THEN [returns |-> TRUE, index |-> ZeroZipcodes,
                  err |-> ErrLon(Field(splittedLine, 10)), map |-> DatasetList]
            ELSE [returns |-> FALSE, index |-> ZeroZipcodes, err |-> NoErr,
                  map |-> MapInsert(DatasetList, Field(splittedLine, 1),
                            ZipCodeLocationOf(Field(splittedLine, 1),
                                              Field(splittedLine, 2),
                                              Field(splittedLine, 3),
                                              lat.val, lon.val,
                                              Field(splittedLine, 4)))]

----------------------------------------------------------------------------
(* Inputs: dataset lines, queried zip codes and radii *)

RECURSIVE JoinTabs(_)
JoinTabs(fields) ==
    IF Len(fields) = 1 THEN fields[1]
    ELSE JoinTabs(SubSeq(fields, 1, Len(fields) - 1)) \o <<TAB>> \o fields[Len(fields)]

\* a 12-field line; the fields the loader does not read are left empty
MkLine(zip, place, admin, state, lat, lon) ==
    JoinTabs(<<<<>>, zip, place, admin, state, <<>>, <<>>, <<>>, <<>>, lat, lon, <<>>>>)

GoodLines ==
    { MkLine(<<>>, <<>>, <<>>, <<>>, <<"0">>, <<"0">>),
      MkLine(<<>>, <<"P">>, <<>>, <<>>, <<"-", "0">>, <<"+", "0">>),
      MkLine(<<"A">>, <<"P">>, <<"R">>, <<"S">>, <<"0">>, <<"0">>),
      MkLine(<<"A">>, <<"Q">>, <<"R">>, <<"S">>, <<"9", "0">>, <<"0">>),
      MkLine(<<"B">>, <<"P">>, <<"R">>, <<"S">>, <<"0">>, <<"0">>),
      MkLine(<<"B">>, <<"P">>, <<"R">>, <<"T">>, <<"0">>, <<"9", "0">>),
      MkLine(<<"B">>, <<"Q">>, <<"U">>, <<"S">>, <<"0">>, <<"1", "8", "0">>),
      MkLine(<<"B">>, <<"Q">>, <<"U">>, <<"S">>, <<"-", "9", "0">>, <<"0">>) }

BadLines ==
    { <<>>,
      JoinTabs([i \in 1..(NumFields - 1) |-> <<"0">>]),
      JoinTabs([i \in 1..(NumFields + 1) |-> <<"0">>]),
      MkLine(<<"A">>, <<"P">>, <<"R">>, <<"S">>, <<"z">>, <<"0">>),
      MkLine(<<"A">>, <<"P">>, <<"R">>, <<"S">>, <<"z">>, <<"y">>),
      MkLine(<<"A">>, <<"P">>, <<"R">>, <<"S">>, <<"0">>, <<"y">>) }

Lines == GoodLines \cup BadLines

Files == UNION {[1..n -> Lines] : n \in 0..MaxLines}

QueryZips == {<<>>, <<"A">>, <<"B">>, <<"C">>}

\* maxRadius, in hundredths: 10007.54 km and 6217.21 mi are a quarter turn
Radii == {0, 1, 621721, 1000754, 9999999}

NoCall ==
    [name |-> "none", zipA |-> <<>>, zipB |-> <<>>, maxRadius |-> 0,
     loc |-> ZeroLocation, err |-> NoErr, dist |-> 0, list |-> <<>>]

----------------------------------------------------------------------------
(* The state machine *)

Init ==
    /\ fileExists \in BOOLEAN
    /\ file \in (IF fileExists THEN Files ELSE {<<>>})
    /\ pc = "start"
    /\ pos = 0
    /\ fileOpen = FALSE
    /\ closeCount = 0
    /\ zipcodeMap = EmptyMap
    /\ result = [index |-> ZeroZipcodes, err |-> NoErr]
    /\ zc = Nil
    /\ call = NoCall

\* os.Open; on failure log.Fatal ends the process (os.Exit(1)) and the
\* return statement after it is never reached
Open ==
    /\ pc = "start"
    /\ IF fileExists
       THEN /\ fileOpen' = TRUE
            /\ pc' = "scan"
       ELSE /\ pc' = "exited"
            /\ UNCHANGED fileOpen
    /\ UNCHANGED <<fileExists, file, pos, closeCount, zipcodeMap, result, zc, call>>

\* scanner.Scan() delivers the next line and the loop body runs on it
ScanLine ==
    /\ pc = "scan"
    /\ pos < Len(file)
    /\ LET r == LoadLine(zipcodeMap, file[pos + 1])
       IN  /\ pos' = pos + 1
           /\ IF r.returns
              THEN /\ result' = [index |-> r.index, err |-> r.err]
                   /\ pc' = "defer"
                   /\ UNCHANGED zipcodeMap
              ELSE /\ zipcodeMap' = r.map
                   /\ UNCHANGED <<result, pc>>
    /\ UNCHANGED <<fileExists, file, fileOpen, closeCount, zc, call>>

\* scanner.Scan() reports the end of the file, scanner.Err() is nil
ScanEnd ==
    /\ pc = "scan"
    /\ pos = Len(file)
    /\ result' = [index |-> [DatasetList |-> zipcodeMap], err |-> NoErr]
    /\ pc' = "defer"
    /\ UNCHANGED <<fileExists, file, pos, fileOpen, closeCount, zipcodeMap, zc, call>>

\* scanner.Scan() stops on a read error or a too long line, scanner.Err()
\* is not nil
ScanFail ==
    /\ pc = "scan"
    /\ result' = [index |-> ZeroZipcodes, err |-> ErrScanner]
    /\ pc' = "defer"
    /\ UNCHANGED <<fileExists, file, pos, fileOpen, closeCount, zipcodeMap, zc, call>>

\* a close that only the successful return makes
DeferCloseOnSuccessOnly ==
    /\ pc = "defer"
    /\ IF result.err = NoErr
       THEN fileOpen' = FALSE /\ closeCount' = closeCount + 1
       ELSE UNCHANGED <<fileOpen, closeCount>>
    /\ pc' = "returned"
    /\ UNCHANGED <<fileExists, file, pos, zipcodeMap, result, zc, call>>

\* the deferred file.Close() runs as LoadDataset returns
DeferClose ==
    /\ pc = "defer"
    /\ fileOpen' = FALSE
    /\ closeCount' = closeCount + 1
    /\ pc' = "returned"
    /\ UNCHANGED <<fileExists, file, pos, zipcodeMap, result, zc, call>>

\* New, after its call of LoadDataset has returned
New ==
    /\ pc = "returned"
    /\ zc' = IF result.err # NoErr THEN Nil ELSE Ptr(result.index)
    /\ pc' = "ready"
    /\ UNCHANGED <<fileExists, file, pos, fileOpen, closeCount, zipcodeMap, result, call>>

Ready == pc = "ready" /\ zc # Nil

\* a lookup that leaves an entry behind for a zip code it did not find
LookupCallInserting ==
    /\ Ready
    /\ \E zipCode \in QueryZips :
         LET r == Lookup(Deref(zc), zipCode)
         IN  /\ call' = [NoCall EXCEPT !.name = "Lookup", !.zipA = zipCode,
                                       !.loc = r.loc, !.err = r.err]
             /\ zc' = IF r.err = NoErr THEN zc
                      ELSE Ptr([DatasetList |->
                                 MapInsert(Deref(zc).DatasetList, zipCode, r.loc)])
    /\ pc' = "called"
    /\ UNCHANGED <<fileExists, file, pos, fileOpen, closeCount, zipcodeMap, result>>

LookupCall ==
    /\ Ready
    /\ \E zipCode \in QueryZips :
         LET r == Lookup(Deref(zc), zipCode)
         IN  call' = [NoCall EXCEPT !.name = "Lookup", !.zipA = zipCode,
                                    !.loc = r.loc, !.err = r.err]
    /\ pc' = "called"
    /\ UNCHANGED <<fileExists, file, pos, fileOpen, closeCount, zipcodeMap, result, zc>>

\* the caller writes into the struct Lookup returned a pointer to
ModifyReturned ==
    /\ pc = "called"
    /\ call.name = "Lookup"
    /\ call' = [call EXCEPT !.name = "Modified", !.loc.PlaceName = <<"M">>,
                            !.loc.Lat = 90]
    /\ UNCHANGED <<fileExists, file, pc, pos, fileOpen, closeCount, zipcodeMap, result, zc>>

DistanceInKm ==
    /\ Ready
    /\ \E zipCodeA \in QueryZips, zipCodeB \in QueryZips :
         LET r == CalculateDistance(Deref(zc), zipCodeA, zipCodeB, earthRadiusKm)
         IN  call' = [NoCall EXCEPT !.name = "DistanceInKm", !.zipA = zipCodeA,
                                    !.zipB = zipCodeB, !.dist = r.dist, !.err = r.err]
    /\ pc' = "called"
    /\ UNCHANGED <<fileExists, file, pos, fileOpen, closeCount, zipcodeMap, result, zc>>

DistanceInMiles ==
    /\ Ready
    /\ \E zipCodeA \in QueryZips, zipCodeB \in QueryZips :
         LET r == CalculateDistance(Deref(zc), zipCodeA, zipCodeB, earthRadiusMi)
         IN  call' = [NoCall EXCEPT !.name = "DistanceInMiles", !.zipA = zipCodeA,
                                    !.zipB = zipCodeB, !.dist = r.dist, !.err = r.err]
    /\ pc' = "called"
    /\ UNCHANGED <<fileExists, file, pos, fileOpen, closeCount, zipcodeMap, result, zc>>

GetZipcodesWithinKmRadius ==
    /\ Ready
    /\ \E zipCode \in QueryZips, radius \in Radii, keys \in Orders(DOMAIN Deref(zc).DatasetList) :
         LET r == GetZipcodesWithinRadius(Deref(zc), keys, zipCode, radius, earthRadiusKm)
         IN  call' = [NoCall EXCEPT !.name = "GetZipcodesWithinKmRadius",
                                    !.zipA = zipCode, !.maxRadius = radius,
                                    !.list = r.list, !.err = r.err]
    /\ pc' = "called"
    /\ UNCHANGED <<fileExists, file, pos, fileOpen, closeCount, zipcodeMap, result, zc>>

GetZipcodesWithinMlRadius ==
    /\ Ready
    /\ \E zipCode \in QueryZips, radius \in Radii, keys \in Orders(DOMAIN Deref(zc).DatasetList) :
         LET r == GetZipcodesWithinRadius(Deref(zc), keys, zipCode, radius, earthRadiusMi)
         IN  call' = [NoCall EXCEPT !.name = "GetZipcodesWithinMlRadius",
                                    !.zipA = zipCode, !.maxRadius = radius,
                                    !.list = r.list, !.err = r.err]
    /\ pc' = "called"
    /\ UNCHANGED <<fileExists, file, pos, fileOpen, closeCount, zipcodeMap, result, zc>>

\* the caller is done with what the last call returned
Discard ==
    /\ pc = "called"
    /\ pc' = "ready"
    /\ call' = NoCall
    /\ UNCHANGED <<fileExists, file, pos, fileOpen, closeCount, zipcodeMap, result, zc>>

Next ==
    \/ Open
    \/ ScanLine
    \/ ScanEnd
    \/ ScanFail
    \/ DeferClose
    \/ New
    \/ LookupCall
    \/ ModifyReturned
    \/ DistanceInKm
    \/ DistanceInMiles
    \/ GetZipcodesWithinKmRadius
    \/ GetZipcodesWithinMlRadius
    \/ Discard

Spec == Init /\ [][Next]_vars

----------------------------------------------------------------------------
(* What the claims speak about *)

\* LoadDataset has returned to its caller and New, if it ran, has too; the
\* queries that follow leave file, result and zc as they are then
Returned == pc \in {"returned", "ready"}

Index == Deref(zc).DatasetList

Range(seq) == {seq[i] : i \in DOMAIN seq}

\* a line LoadDataset rejects
Malformed(text) ==
    \/ Len(Split(text)) # NumFields
    \/ ~ParseFloat(Field(Split(text), 9)).ok
    \/ ~ParseFloat(Field(Split(text), 10)).ok

HasMalformed == \E i \in 1..Len(file) : Malformed(file[i])

FirstMalformed ==
    CHOOSE i \in 1..Len(file) :
        Malformed(file[i]) /\ \A j \in 1..(i - 1) : ~Malformed(file[j])

ZipOf(text) == Field(Split(text), 1)

\* the last line of the file that carries zip code k
LastLineOf(k) ==
    file[CHOOSE i \in 1..Len(file) :
            ZipOf(file[i]) = k /\ \A j \in (i + 1)..Len(file) : ZipOf(file[j]) # k]

\* C1: every key k of the loaded index is found by Lookup(k), which returns
\* a record with ZipCode k and the place name, admin name, latitude and
\* longitude of the line stored for k
C1_RoundTrip ==
    (pc = "called" /\ call.name = "Lookup" /\ call.zipA \in DOMAIN Index) =>
        LET f == Split(LastLineOf(call.zipA))
        IN  /\ call.err = NoErr
            /\ call.loc.ZipCode = call.zipA
            /\ call.loc.PlaceName = Field(f, 2)
            /\ call.loc.AdminName = Field(f, 3)
            /\ call.loc.Lat = ParseFloat(Field(f, 9)).val
            /\ call.loc.Lon = ParseFloat(Field(f, 10)).val

\* C2: when the file has a malformed line, LoadDataset stops no later than
\* the first such line and returns an error with an index of no records,
\* whatever valid lines precede it, and New returns no index
C2_AllOrNothing ==
    (Returned /\ HasMalformed) =>
        /\ result.err # NoErr
        /\ DOMAIN result.index.DatasetList = {}
        /\ pos <= FirstMalformed
        /\ (result.err # ErrScanner => pos = FirstMalformed)
        /\ (pc = "ready" => zc = Nil)

C2_Witness ==
    /\ pc = "ready"
    /\ zc = Nil
    /\ pos = 3
    /\ ~Malformed(file[1]) /\ ~Malformed(file[2]) /\ Malformed(file[3])
    /\ ZipOf(file[1]) # ZipOf(file[2])

\* C3: the error of a load that stopped on a line is decided by the first
\* malformed line: the field-count error if it has not 12 fields, else the
\* latitude error with the text of field 9 if that does not parse, else the
\* longitude error with the text of field 10
C3_ErrorOrder ==
    (Returned /\ result.err # NoErr /\ result.err # ErrScanner) =>
        /\ HasMalformed
        /\ LET f == Split(file[FirstMalformed])
           IN  result.err =
                 IF Len(f) # NumFields THEN ErrFields
                 ELSE IF ~ParseFloat(Field(f, 9)).ok THEN ErrLat(Field(f, 9))
                 ELSE ErrLon(Field(f, 10))

C3_Witness ==
    /\ pc = "returned"
    /\ result.err = ErrLat(<<"z">>)
    /\ pos = 2
    /\ Len(Split(file[2])) = NumFields
    /\ ~ParseFloat(Field(Split(file[2]), 10)).ok

\* C4: when the file cannot be opened, LoadDataset returns to its caller
\* with the file-access error and no index
C4_OpenFailureReturns ==
    (~fileExists /\ pc # "start") =>
        /\ Returned
        /\ result.err = ErrOpen
        /\ DOMAIN result.index.DatasetList = {}
        /\ (pc = "ready" => zc = Nil)

\* C5: a distance call returns not-found naming zipA with distance 0 when
\* zipA is absent from the index, not-found naming zipB with distance 0 when
\* only zipB is absent, and otherwise no error and the distance between the
\* two stored coordinates
C5_DistanceLookupOrder ==
    (pc = "called" /\ call.name \in {"DistanceInKm", "DistanceInMiles"}) =>
        LET R == IF call.name = "DistanceInKm" THEN earthRadiusKm ELSE earthRadiusMi
        IN  IF call.zipA \notin DOMAIN Index
            THEN call.err = ErrNotFound(call.zipA) /\ call.dist = 0
            ELSE IF call.zipB \notin DOMAIN Index
            THEN call.err = ErrNotFound(call.zipB) /\ call.dist = 0
            ELSE /\ call.err = NoErr
                 /\ call.dist = DistanceBetweenPoints(
                        Index[call.zipA].Lat, Index[call.zipA].Lon,
                        Index[call.zipB].Lat, Index[call.zipB].Lon, R)

\* C6: for a zip code z of the index a radius search returns, without
\* repetition, exactly the other zip codes of the index nearer to z than
\* maxRadius; for a z not in the index it returns not-found and no list
C6_RadiusExact ==
    (pc = "called" /\ call.name \in {"GetZipcodesWithinKmRadius",
                                     "GetZipcodesWithinMlRadius"}) =>
        LET R == IF call.name = "GetZipcodesWithinKmRadius"
                 THEN earthRadiusKm ELSE earthRadiusMi
            z == call.zipA
        IN  IF z \in DOMAIN Index
            THEN /\ call.err = NoErr
                 /\ Range(call.list) =
                      {k \in DOMAIN Index \ {z} :
                          DistanceBetweenPoints(Index[z].Lat, Index[z].Lon,
                              Index[k].Lat, Index[k].Lon, R) < call.maxRadius}
                 /\ Cardinality(Range(call.list)) = Len(call.list)
            ELSE call.err = ErrNotFound(z) /\ call.list = <<>>

\* C7: for zip codes a and b of the index the distance from a to b is the
\* distance from b to a, and b is in the radius result of a exactly when a
\* is in the radius result of b
C7_Symmetry ==
    (pc = "ready" /\ zc # Nil) =>
        \A a \in DOMAIN Index, b \in DOMAIN Index, R \in {earthRadiusKm, earthRadiusMi} :
            /\ CalculateDistance(Deref(zc), a, b, R).dist
                 = CalculateDistance(Deref(zc), b, a, R).dist
            /\ \A maxRadius \in Radii, keys \in Orders(DOMAIN Index) :
                 b \in Range(GetZipcodesWithinRadius(Deref(zc), keys, a, maxRadius, R).list)
                 <=> a \in Range(GetZipcodesWithinRadius(Deref(zc), keys, b, maxRadius, R).list)

\* C8: after a successful load the keys of the index are the zip codes that
\* occur in the file, each key holds the record of the last line with that
\* zip code, and the ZipCode of that record is the key
C8_LastWriteWins ==
    (Returned /\ result.err = NoErr) =>
        LET idx == result.index.DatasetList
        IN  /\ DOMAIN idx = {ZipOf(file[i]) : i \in 1..Len(file)}
            /\ Cardinality(DOMAIN idx)
                 = Cardinality({ZipOf(file[i]) : i \in 1..Len(file)})
            /\ \A k \in DOMAIN idx :
                 LET f == Split(LastLineOf(k))
                 IN  /\ idx[k].ZipCode = k
                     /\ idx[k] = ZipCodeLocationOf(Field(f, 1), Field(f, 2),
                                    Field(f, 3), ParseFloat(Field(f, 9)).val,
                                    ParseFloat(Field(f, 10)).val, Field(f, 4))

C8_Witness ==
    /\ pc = "returned"
    /\ result.err = NoErr
    /\ Len(file) = 3
    /\ ZipOf(file[1]) = ZipOf(file[3])
    /\ ZipOf(file[2]) # ZipOf(file[1])
    /\ file[1] # file[3]
    /\ Cardinality(DOMAIN result.index.DatasetList) = 2

\* C9: once LoadDataset has returned, no call changes the index: what New
\* handed out stays the index LoadDataset returned, also across lookups of
\* absent zip codes and writes into a returned record
C9_ReadOnly ==
    [][(pc \in {"ready", "called"} /\ zc # Nil) =>
          (zc' = zc /\ result' = result /\ Deref(zc) = result.index)]_vars

C9_Witness ==
    /\ pc = "called"
    /\ call.name = "Modified"
    /\ call.zipA \in DOMAIN Index
    /\ call.loc.PlaceName = <<"M">>
    /\ Index[call.zipA].PlaceName # <<"M">>
    /\ Index[call.zipA].Lat # call.loc.Lat

\* C10: a LoadDataset that opened the file has closed it, exactly once, when
\* it has returned, on every way out; the file is open only inside the call
C10_FileClosed ==
    /\ closeCount <= 1
    /\ (fileOpen => pc \in {"scan", "defer"})
    /\ (pc \in {"returned", "ready", "called"} => (~fileOpen /\ closeCount = 1))

C10_Witness ==
    /\ pc = "returned"
    /\ result.err = ErrScanner
    /\ pos = 1
    /\ Len(file) = 3
    /\ closeCount = 1

====
